---- MODULE Spec2Model ----
(***************************************************************************)
(* French Audio Learning Tool: the segmenter, the text cleaner, the        *)
(* per-segment pipeline with its manifest, and the dashboard's vocabulary  *)
(* aggregation, modelled from src/src/french_audio_processor.py and        *)
(* src/src/frontend/streamlit_app.py.                                      *)
(*                                                                         *)
(* Text is a sequence of one-character strings, durations are integers in  *)
(* milliseconds (len(AudioSegment)).                                       *)
(***************************************************************************)
EXTENDS Integers, Sequences, FiniteSets, TLC

VARIABLES
    pc,           \* process_audio_file: "idle", "start", "loaded", "loop", "done", "failed"
    variant,      \* "standalone" (FrenchAudioProcessor) or "dashboard" (with progress)
    audioLen,     \* len(audio) in ms, None before the load
    candidates,   \* durations (ms) of the segments split_on_silence returned
    segments,     \* final_segments of split_audio_intelligently
    i,            \* 0-based index of the next segment of the for loop
    sections,     \* processed_sections
    log,          \* what the collaborators answered, one entry per segment started
    manifest,     \* the dict dumped to <base>_processed.json, None before
    tempExists,   \* whether output_dir/temp_segment.wav exists
    cleanIn,      \* clean_text: the argument of the first call
    cleanOnce,    \* <<clean_text(cleanIn)>>, <<>> before the call
    cleanTwice,   \* <<clean_text(cleanOnce[1])>>, <<>> before the call
    frenchTexts,  \* the frenchText of the sections of the selected manifest
    french_stopwords,    \* set(get_stopwords("fr"))
    filter_words_input,  \* the text of the filter text area
    file_vocab_counter,  \* <<Counter(extract_vocab(...))>>, <<>> before the call
    vocab_cache,         \* vocab_cache.pkl: <<the pickled Counter>>, <<>> when missing
    session_state,       \* per session: st.session_state["update_global_vocab"]
    shown,               \* per session: what the last rerun of the script computed
    script               \* per session: where its running script is, and its locals

pipeVars == <<pc, variant, audioLen, candidates, segments, i, sections, log,
              manifest, tempExists>>
cleanVars == <<cleanIn, cleanOnce, cleanTwice>>
vocabVars == <<frenchTexts, french_stopwords, filter_words_input, file_vocab_counter>>
dashVars == <<vocab_cache, session_state, shown, script>>
vars == <<pipeVars, cleanVars, vocabVars, dashVars>>

None == "None"

(***************************************************************************)
(* Bounds of the model.                                                    *)
(***************************************************************************)
MaxLen == 4          \* longest text handed to clean_text in SpecClean
MaxCands == 3        \* most candidates split_on_silence returns in SpecSplit
MaxRunCands == 1     \* most candidates split_on_silence returns in SpecRun
MaxTextLen == 4      \* longest generated frenchText in SpecVocab
MaxCount == 4        \* no update is asked for once a stored count reaches it

(***************************************************************************)
(* Text primitives (Python str / re).                                      *)
(***************************************************************************)
Whitespace == {" ", "\t", "\n"}

IsSpace(c) == c \in Whitespace

RECURSIVE LStrip(_)
LStrip(s) ==
    IF s = <<>> THEN <<>>
    ELSE IF IsSpace(Head(s)) THEN LStrip(Tail(s)) ELSE s

RECURSIVE RStrip(_)
RStrip(s) ==
    IF s = <<>> THEN <<>>
    ELSE IF IsSpace(s[Len(s)]) THEN RStrip(SubSeq(s, 1, Len(s) - 1)) ELSE s

\* str.strip()
Strip(s) == RStrip(LStrip(s))

\* the concatenation of pieces[lo], ..., pieces[hi]
RECURSIVE Flatten(_, _, _)
Flatten(pieces, lo, hi) ==
    IF lo > hi THEN <<>>
    ELSE IF lo = hi THEN pieces[lo]
    ELSE LET mid == (lo + hi) \div 2
         IN  Flatten(pieces, lo, mid) \o Flatten(pieces, mid + 1, hi)

\* re.sub(r'\s+', ' ', s): every maximal run of whitespace becomes one space,
\* so a whitespace character yields a space when it starts a run and nothing
\* otherwise
CollapseWhitespace(s) ==
    LET piece(k) ==
            IF ~IsSpace(s[k]) THEN <<s[k]>>
            ELSE IF k > 1 /\ IsSpace(s[k - 1]) THEN <<>>
            ELSE <<" ">>
    IN  Flatten([k \in 1..Len(s) |-> piece(k)], 1, Len(s))

\* str.replace(old, new) for an old that is no longer than s allows and has no
\* border (no proper prefix of it is a suffix of it, as in ' .'): the
\* occurrences cannot overlap, so the left-to-right scan replaces every one
Replace(s, old, new) ==
    LET n == Len(old)
        starts(p) == p >= 1 /\ p + n - 1 <= Len(s) /\ SubSeq(s, p, p + n - 1) = old
        piece(k) ==
            IF starts(k) THEN new
            ELSE IF \E p \in (k - n + 1)..(k - 1) : starts(p) THEN <<>>
            ELSE <<s[k]>>
    IN  Flatten([k \in 1..Len(s) |-> piece(k)], 1, Len(s))

\* the four punctuation fixes of clean_text, in the code's order
FixPunctuation(s) ==
    Replace(Replace(Replace(Replace(s,
        <<" ", ".">>, <<".">>),
        <<" ", ",">>, <<",">>),
        <<" ", "?">>, <<"?">>),
        <<" ", "!">>, <<"!">>)

\* a clean_text that fixes punctuation before it normalises whitespace
clean_text_FixFirst(text) == Strip(CollapseWhitespace(FixPunctuation(text)))

\* FrenchAudioProcessor.clean_text
clean_text(text) == FixPunctuation(Strip(CollapseWhitespace(text)))


(***************************************************************************)
(* Program constants.                                                      *)
(***************************************************************************)
MaxSegmentMs == 30000    \* candidates longer than this are re-split
ChunkLengthMs == 20000   \* chunk_length
MinChunkMs == 5000       \* chunks must be longer than this
MinSegmentMs == 3000     \* candidates must be longer than this
ExcerptLen == 50         \* french_text[:50] in the translation placeholder

(***************************************************************************)
(* Segmenter.  A segment is a slice of a candidate: the candidate's        *)
(* position, the slice's offset in it, and its duration len(segment).      *)
(***************************************************************************)
Min(a, b) == IF a <= b THEN a ELSE b

\* for i in range(0, len(segment), chunk_length): chunk = segment[i:i+chunk_length]
RECURSIVE Chunks(_, _, _)
Chunks(cand, off, n) ==
    IF off >= n THEN <<>>
    ELSE LET chunkLen == Min(ChunkLengthMs, n - off)
             kept == IF chunkLen > MinChunkMs
                     THEN <<[cand |-> cand, start |-> off, len |-> chunkLen]>>
                     ELSE <<>>
         IN  kept \o Chunks(cand, off + ChunkLengthMs, n)

\* a candidate kept whenever it is at least MinSegmentMs long
SplitCandidate_KeepEqual(cand, n) ==
    IF n > MaxSegmentMs THEN Chunks(cand, 0, n)
    ELSE IF n >= MinSegmentMs THEN <<[cand |-> cand, start |-> 0, len |-> n]>>
    ELSE <<>>

\* the body of the loop over the candidates
SplitCandidate(cand, n) ==
    IF n > MaxSegmentMs THEN Chunks(cand, 0, n)
    ELSE IF n > MinSegmentMs THEN <<[cand |-> cand, start |-> 0, len |-> n]>>
    ELSE <<>>

RECURSIVE SplitFrom(_, _)
SplitFrom(cands, k) ==
    IF k > Len(cands) THEN <<>>
    ELSE SplitCandidate(k, cands[k]) \o SplitFrom(cands, k + 1)

\* FrenchAudioProcessor.split_audio_intelligently, after split_on_silence
split_audio_intelligently(cands) == SplitFrom(cands, 1)

RECURSIVE SumSeq(_)
SumSeq(s) == IF s = <<>> THEN 0 ELSE Head(s) + SumSeq(Tail(s))

SeqsUpTo(S, n) == UNION {[1..k -> S] : k \in 0..n}

\* the texts of at most n characters of the alphabet
RECURSIVE TextsUpTo(_, _)
TextsUpTo(alphabet, n) ==
    IF n = 0 THEN {<<>>}
    ELSE LET shorter == TextsUpTo(alphabet, n - 1)
         IN  shorter \cup {Append(t, c) : t \in shorter, c \in alphabet}

PipeIdle ==
    /\ pc = "idle"
    /\ variant = None
    /\ audioLen = None
    /\ candidates = <<>>
    /\ segments = <<>>
    /\ i = 0
    /\ sections = <<>>
    /\ log = <<>>
    /\ manifest = None
    /\ tempExists = FALSE

(***************************************************************************)
(* The collaborators' answers, and the methods that wrap them.             *)
(***************************************************************************)
Rep(c, n) == [k \in 1..n |-> c]

Take(s, n) == SubSeq(s, 1, Min(n, Len(s)))

\* texts recognize_google may return: blank, short with a detached full
\* stop, and one of 52 characters whose 50th is a space
BlankFr == <<" ">>
ShortFr == <<" ", "o", "u", "i", " ", ".">>
LongFr == Rep("a", 49) \o <<" ", "b", "c">>
RawTranscripts == {BlankFr, ShortFr, LongFr}

\* texts the translator may return
Translations == {<<"y", "e", "s", " ", "!">>, <<>>}

SttOutcomes ==
    {[kind |-> "text", text |-> t, partial |-> FALSE] : t \in RawTranscripts}
    \cup {[kind |-> k, text |-> <<>>, partial |-> FALSE] :
            k \in {"UnknownValueError", "RequestError", "OtherError"}}
    \cup {[kind |-> "ExportError", text |-> <<>>, partial |-> p] : p \in BOOLEAN}

TranslateOutcomes ==
    {[kind |-> "ok", text |-> t] : t \in Translations}
    \cup {[kind |-> "error", text |-> <<>>]}

IoOutcomes == {"ok", "error"}

\* a transcribe_audio_segment that lets sr.RequestError escape
transcribe_audio_segment_NoRequestCatch(stt) ==
    IF stt.kind = "ExportError"
    THEN [raised |-> TRUE, value |-> <<>>, temp |-> stt.partial]
    ELSE IF stt.kind = "text"
    THEN [raised |-> FALSE, value |-> Strip(stt.text), temp |-> FALSE]
    ELSE IF stt.kind = "UnknownValueError"
    THEN [raised |-> FALSE, value |-> <<>>, temp |-> FALSE]
    ELSE [raised |-> TRUE, value |-> <<>>, temp |-> FALSE]

\* FrenchAudioProcessor.transcribe_audio_segment: what it returns or that it
\* raises, and whether temp_segment.wav exists afterwards.  The export of the
\* working file runs before the try: when it raises, the file it may have
\* started to write stays.
transcribe_audio_segment(stt) ==
    IF stt.kind = "ExportError"
    THEN [raised |-> TRUE, value |-> <<>>, temp |-> stt.partial]
    ELSE IF stt.kind = "text"
    THEN [raised |-> FALSE, value |-> Strip(stt.text), temp |-> FALSE]
    ELSE IF stt.kind \in {"UnknownValueError", "RequestError"}
    THEN [raised |-> FALSE, value |-> <<>>, temp |-> FALSE]
    ELSE [raised |-> TRUE, value |-> <<>>, temp |-> FALSE]

PlaceholderHead ==
    <<"[", "T", "r", "a", "n", "s", "l", "a", "t", "i", "o", "n", " ",
      "f", "a", "i", "l", "e", "d", " ", "f", "o", "r", ":", " ">>
PlaceholderTail == <<".", ".", ".", "]">>

\* a placeholder that embeds the whole French text
TranslationPlaceholder_Whole(french_text) ==
    PlaceholderHead \o french_text \o PlaceholderTail

\* f"[Translation failed for: {french_text[:50]}...]"
TranslationPlaceholder(french_text) ==
    PlaceholderHead \o Take(french_text, ExcerptLen) \o PlaceholderTail

\* FrenchAudioProcessor.translate_text
translate_text(french_text, tr) ==
    IF Strip(french_text) = <<>> THEN <<>>
    ELSE IF tr.kind = "ok" THEN tr.text
    ELSE TranslationPlaceholder(french_text)

\* a generate_tts_audio without its except clause
generate_tts_audio_NoCatch(text, tts) ==
    IF Strip(text) = <<>> THEN [raised |-> FALSE, value |-> FALSE]
    ELSE [raised |-> tts = "error", value |-> tts = "ok"]

\* FrenchAudioProcessor.generate_tts_audio(text, path, 'en'): its return value;
\* whatever gTTS raises is caught
generate_tts_audio(text, tts) ==
    IF Strip(text) = <<>> THEN [raised |-> FALSE, value |-> FALSE]
    ELSE [raised |-> FALSE, value |-> tts = "ok"]

StemOf == "my_podcast"

\* output_base: the stem, and a timestamp in the standalone run only
OutputBase(v) ==
    IF v = "standalone" THEN <<StemOf, "timestamp">> ELSE <<StemOf>>

\* output_dir / subdir / f"{output_base}_{lang}_{i+1:03d}.mp3", relative to output_dir
AudioPath(subdir, base, lang, idx) == <<subdir, base, lang, idx + 1>>

\* a numbering that counts the sections emitted so far
segment_number_Dense(idx, emitted) == emitted + 1

\* "segment_number": i + 1, for loop index idx and len(processed_sections) emitted
segment_number(idx, emitted) == idx + 1

\* section_data; duration_seconds is kept in ms (len(segment) / 1000.0)
section_data(segment, idx, emitted, french_text, english_text, base) ==
    [frenchText |-> french_text,
     englishText |-> english_text,
     frenchAudioFilePath |-> AudioPath("french_audio", base, "fr", idx),
     englishAudioFilePath |-> AudioPath("english_audio", base, "en", idx),
     duration_seconds |-> segment.len,
     segment_number |-> segment_number(idx, emitted)]

\* a count of the segmenter's segments
TotalSegments_OfSegmenter(secs, segs) == Len(segs)

\* "totalSegments": len(processed_sections)
TotalSegments(secs, segs) == Len(secs)

RECURSIVE SumDurations(_)
SumDurations(secs) ==
    IF secs = <<>> THEN 0
    ELSE Head(secs).duration_seconds + SumDurations(Tail(secs))

\* a total that sums the kept sections
TotalDuration_OfSections(audio, secs) == SumDurations(secs)

\* "totalDuration": len(audio) / 1000.0, kept in ms
TotalDuration(audio, secs) == audio

\* the result dict of process_audio_file
Manifest(v, audio, secs, segs) ==
    [fileName |-> StemOf,
     processedAt |-> "now",
     totalSegments |-> TotalSegments(secs, segs),
     totalDuration |-> TotalDuration(audio, secs),
     outputDirectory |-> "output_dir",
     sections |-> secs]

\* one entry of the collaborators' history: the recognizer's answer and the
\* text it returned (empty when it raised), then the translator's, the French
\* mp3 export's and the English synthesis' outcome, None for a call the
\* iteration did not reach
LogEntry(stt, heard, translation, export, tts) ==
    [stt |-> stt, heard |-> heard, translation |-> translation,
     export |-> export, tts |-> tts]

(***************************************************************************)
(* process_audio_file, standalone and dashboard variant.                   *)
(***************************************************************************)
\* load_and_preprocess_audio: the decoder returns audio, or raises
Load(lens) ==
    /\ pc = "start"
    /\ \/ \E n \in lens : audioLen' = n /\ pc' = "loaded"
       \/ audioLen' = audioLen /\ pc' = "failed"
    /\ UNCHANGED <<variant, candidates, segments, i, sections, log, manifest,
                   tempExists, cleanVars, vocabVars, dashVars>>

\* split_audio_intelligently: split_on_silence returns consecutive slices of
\* the audio, then the duration policy is applied
SplitAudio(durations, maxCands) ==
    /\ pc = "loaded"
    /\ \E cands \in SeqsUpTo(durations, maxCands) :
          /\ SumSeq(cands) <= audioLen
          /\ candidates' = cands
          /\ segments' = split_audio_intelligently(cands)
    /\ i' = 0
    /\ pc' = "loop"
    /\ UNCHANGED <<variant, audioLen, sections, log, manifest, tempExists,
                   cleanVars, vocabVars, dashVars>>

\* the iteration ends in "continue" or in an exception: no section
NoSection(stt, heard, translation, export, tts, nextPc, nextI) ==
    /\ log' = Append(log, LogEntry(stt, heard, translation, export, tts))
    /\ pc' = nextPc
    /\ i' = nextI
    /\ UNCHANGED sections

\* one iteration of "for i, segment in enumerate(segments)"
ProcessSegment ==
    /\ pc = "loop"
    /\ i < Len(segments)
    /\ \E stt \in SttOutcomes :
          LET segment == segments[i + 1]
              t == transcribe_audio_segment(stt)
              heard == stt.text
              french_text == clean_text(t.value)
          IN  /\ tempExists' = t.temp
              /\ IF t.raised
                 THEN NoSection(stt.kind, heard, None, None, None, "failed", i)
                 ELSE IF t.value = <<>>
                 THEN NoSection(stt.kind, heard, None, None, None, pc, i + 1)
                 ELSE \E tr \in TranslateOutcomes :
                        LET english_text == clean_text(translate_text(french_text, tr))
                            said == Strip(english_text) # <<>>
                        IN  \E ex \in IoOutcomes, tts \in IoOutcomes :
                              LET spoken == generate_tts_audio(english_text, tts)
                                  ttsLog == IF said THEN tts ELSE "skipped"
                              IN  IF ex = "error"
                                  THEN NoSection(stt.kind, heard, tr.kind, ex, None,
                                                 "failed", i)
                                  ELSE IF spoken.raised
                                  THEN NoSection(stt.kind, heard, tr.kind, ex, ttsLog,
                                                 "failed", i)
                                  ELSE /\ log' = Append(log,
                                            LogEntry(stt.kind, heard, tr.kind, ex, ttsLog))
                                       /\ sections' = Append(sections,
                                            section_data(segment, i, Len(sections),
                                                         french_text, english_text,
                                                         OutputBase(variant)))
                                       /\ i' = i + 1
                                       /\ UNCHANGED pc
    /\ UNCHANGED <<variant, audioLen, candidates, segments, manifest, cleanVars, vocabVars, dashVars>>

\* after the loop: the result dict is built and dumped
Finish ==
    /\ pc = "loop"
    /\ i = Len(segments)
    /\ manifest' = Manifest(variant, audioLen, sections, segments)
    /\ pc' = "done"
    /\ UNCHANGED <<variant, audioLen, candidates, segments, i, sections, log,
                   tempExists, cleanVars, vocabVars, dashVars>>

(***************************************************************************)
(* Vocabulary aggregation of the dashboard.                                *)
(***************************************************************************)
CleanIdle ==
    /\ cleanIn = <<>>
    /\ cleanOnce = <<>>
    /\ cleanTwice = <<>>

VocabIdle ==
    /\ frenchTexts = <<>>
    /\ french_stopwords = {}
    /\ filter_words_input = <<>>
    /\ file_vocab_counter = <<>>

\* the dashboard's sessions
Sessions == {1, 2}

\* collections.Counter()
EmptyCounter == [w \in {} |-> 0]

\* the script has not run in the session yet
NotRun ==
    [selected_file |-> 0,
     file_vocab_counter |-> EmptyCounter,
     global_vocab_counter |-> EmptyCounter]

\* no script is running in the session; saved is the file whose counts the
\* session added when it last wrote the cache file, 0 when it never did
ScriptIdle(saved) ==
    [at |-> "idle",
     selected_file |-> 0,
     file_vocab_counter |-> EmptyCounter,
     global_vocab_counter |-> EmptyCounter,
     saved |-> saved]

DashIdle ==
    /\ vocab_cache = <<>>
    /\ session_state = [s \in Sessions |-> FALSE]
    /\ shown = [s \in Sessions |-> NotRun]
    /\ script = [s \in Sessions |-> ScriptIdle(0)]

UpperLetters ==
    <<"A", "B", "C", "D", "E", "F", "G", "H", "I", "J", "K", "L", "M",
      "N", "O", "P", "Q", "R", "S", "T", "U", "V", "W", "X", "Y", "Z">>
LowerLetters ==
    <<"a", "b", "c", "d", "e", "f", "g", "h", "i", "j", "k", "l", "m",
      "n", "o", "p", "q", "r", "s", "t", "u", "v", "w", "x", "y", "z">>

Range(f) == {f[x] : x \in DOMAIN f}

\* str.lower(), str.isalpha() over the ASCII letters
LowerChar(c) ==
    IF c \in Range(UpperLetters)
    THEN LowerLetters[CHOOSE k \in 1..26 : UpperLetters[k] = c]
    ELSE c
Lower(w) == [k \in 1..Len(w) |-> LowerChar(w[k])]
IsAlpha(w) ==
    /\ w # <<>>
    /\ \A k \in 1..Len(w) : w[k] \in Range(UpperLetters) \cup Range(LowerLetters)

\* the scan behind str.split(): cur is the word being read
RECURSIVE SplitScan(_, _, _)
SplitScan(s, k, cur) ==
    LET done == IF cur = <<>> THEN <<>> ELSE <<cur>>
    IN  IF k > Len(s) THEN done
        ELSE IF IsSpace(s[k]) THEN done \o SplitScan(s, k + 1, <<>>)
        ELSE SplitScan(s, k + 1, Append(cur, s[k]))

\* text.split(): the words between runs of whitespace
Split(s) == SplitScan(s, 1, <<>>)

\* the scan behind str.split(sep): empty pieces are kept
RECURSIVE SplitOnScan(_, _, _, _)
SplitOnScan(s, sep, k, cur) ==
    IF k > Len(s) THEN <<cur>>
    ELSE IF s[k] = sep THEN <<cur>> \o SplitOnScan(s, sep, k + 1, <<>>)
    ELSE SplitOnScan(s, sep, k + 1, Append(cur, s[k]))

\* line.split(","), and filter_words_input.splitlines() up to a last empty
\* line, which adds no word
SplitOn(s, sep) == SplitOnScan(s, sep, 1, <<>>)

\* the loop that parses the text area into user_filter_words
user_filter_words(input) ==
    LET lines == SplitOn(input, "\n")
        words(line) == {Lower(Strip(piece)) : piece \in Range(SplitOn(line, ","))}
    IN  UNION {words(lines[k]) : k \in 1..Len(lines)} \ {<<>>}

\* an extract_vocab that tests the word as written, not lowercased
KeepsWord_AsWritten(w, stop, excluded) ==
    /\ IsAlpha(Lower(w))
    /\ w \notin stop
    /\ w \notin excluded

\* the condition of extract_vocab on the word w of a text
KeepsWord(w, stop, excluded) ==
    /\ IsAlpha(Lower(w))
    /\ Lower(w) \notin stop
    /\ Lower(w) \notin excluded

RECURSIVE KeptWords(_, _, _)
KeptWords(ws, stop, excluded) ==
    IF ws = <<>> THEN <<>>
    ELSE (IF KeepsWord(Head(ws), stop, excluded) THEN <<Lower(Head(ws))>> ELSE <<>>)
         \o KeptWords(Tail(ws), stop, excluded)

\* extract_vocab(texts), with the two sets it closes over
RECURSIVE extract_vocab(_, _, _)
extract_vocab(texts, stop, excluded) ==
    IF texts = <<>> THEN <<>>
    ELSE KeptWords(Split(Head(texts)), stop, excluded)
         \o extract_vocab(Tail(texts), stop, excluded)

\* collections.Counter(words)
Counter(words) ==
    [w \in Range(words) |-> Cardinality({k \in 1..Len(words) : words[k] = w})]

\* counter[w], 0 for a missing key
CountOf(counter, w) == IF w \in DOMAIN counter THEN counter[w] ELSE 0

(***************************************************************************)
(* SpecVocab: the per-file vocabulary of one selected manifest.            *)
(***************************************************************************)
JeanAimeLeChat ==
    <<"J", "e", "a", "n", " ", "a", "i", "m", "e", " ", "l", "e", " ",
      "c", "h", "a", "t">>
LeChatDort ==
    <<"L", "e", " ", "C", "h", "a", "t", " ", "d", "o", "r", "t", ".", " ",
      "c", "h", "a", "t", "\t", "2", "x">>

VocabAlphabet == {"L", "l", "e", " ", "1"}

VocabTextLists ==
    {<<t>> : t \in TextsUpTo(VocabAlphabet, MaxTextLen)}
    \cup {<<JeanAimeLeChat>>, <<JeanAimeLeChat, LeChatDort>>}

StopwordSets == {{<<"l", "e">>}, {<<"l", "e">>, <<"l">>, <<"e", "l", "l", "e">>}}

\* the default of the text area; other casings and separators
DefaultFilter ==
    <<"j", "e", "a", "n", ",", " ", "m", "a", "r", "i", "e", ",", " ",
      "p", "i", "e", "r", "r", "e", ",", " ", "l", "u", "c", ",", " ",
      "j", "u", "l", "i", "e">>
FilterInputs ==
    {DefaultFilter,
     <<>>,
     <<"J", "E", "A", "N", "\n", " ", "E", "l", " ", ",", ",", "l", "l">>}

InitVocab ==
    /\ PipeIdle
    /\ CleanIdle
    /\ DashIdle
    /\ frenchTexts \in VocabTextLists
    /\ french_stopwords \in StopwordSets
    /\ filter_words_input \in FilterInputs
    /\ file_vocab_counter = <<>>

\* lines 124-145 of the dashboard script: the filter is parsed and the words
\* of the selected file are counted
CountFileVocab ==
    /\ file_vocab_counter = <<>>
    /\ file_vocab_counter' =
          <<Counter(extract_vocab(frenchTexts, french_stopwords,
                                  user_filter_words(filter_words_input)))>>
    /\ UNCHANGED <<frenchTexts, french_stopwords, filter_words_input, pipeVars,
                   cleanVars, dashVars>>

NextVocab == CountFileVocab

SpecVocab == InitVocab /\ [][NextVocab]_vars

(***************************************************************************)
(* SpecDash: the dashboard script rerun by its sessions, each rerun whole. *)
(***************************************************************************)
\* the frenchText lists of the *_processed.json files of the output directory
ProcessedFiles == <<(<<JeanAimeLeChat>>), <<JeanAimeLeChat, LeChatDort>>>>

DashStopwords == {<<"l", "e">>}

\* Counter.update(other): counts are added
CounterUpdate(counter, other) ==
    [w \in DOMAIN counter \cup DOMAIN other |->
        CountOf(counter, w) + CountOf(other, w)]

\* the largest count of a counter, 0 when it is empty
LargestCount(counter) ==
    IF DOMAIN counter = {} THEN 0
    ELSE CHOOSE n \in Range(counter) : \A m \in Range(counter) : m <= n

\* the cache file's Counter, a new Counter() when the file is missing
LoadCache(cache) == IF cache # <<>> THEN cache[1] ELSE EmptyCounter

\* a script that updates the global vocabulary at every rerun
ShouldUpdate_Always(flag) == TRUE

\* st.session_state.get("update_global_vocab", False)
ShouldUpdate(flag) == flag

\* the user asks for the global vocabulary to be updated with the selected
\* file: the flag is set and the script reruns
RequestUpdate(s) ==
    /\ script[s].at = "idle"
    /\ ~session_state[s]
    /\ LargestCount(LoadCache(vocab_cache)) < MaxCount
    /\ session_state' = [session_state EXCEPT ![s] = TRUE]
    /\ UNCHANGED <<vocab_cache, shown, script, pipeVars, cleanVars, vocabVars>>

\* one rerun of the script by session s, lines 104-160: a file is selected,
\* its vocabulary counted, the cache loaded, and updated and saved when the
\* session's flag is set
Rerun(s) ==
    /\ script[s].at = "idle"
    /\ \E f \in 1..Len(ProcessedFiles) :
          LET counted == Counter(extract_vocab(ProcessedFiles[f], DashStopwords,
                                               user_filter_words(DefaultFilter)))
              loaded == LoadCache(vocab_cache)
              update == ShouldUpdate(session_state[s])
              global_vocab_counter ==
                  IF update THEN CounterUpdate(loaded, counted) ELSE loaded
          IN  /\ vocab_cache' = IF update THEN <<global_vocab_counter>> ELSE vocab_cache
              /\ session_state' =
                    IF update THEN [session_state EXCEPT ![s] = FALSE]
                    ELSE session_state
              /\ shown' = [shown EXCEPT ![s] =
                    [selected_file |-> f,
                     file_vocab_counter |-> counted,
                     global_vocab_counter |-> global_vocab_counter]]
    /\ UNCHANGED <<script, pipeVars, cleanVars, vocabVars>>

InitDash ==
    /\ PipeIdle
    /\ CleanIdle
    /\ VocabIdle
    /\ DashIdle

NextDash == \E s \in Sessions : RequestUpdate(s) \/ Rerun(s)

SpecDash == InitDash /\ [][NextDash]_vars

(***************************************************************************)
(* SpecSessions: the dashboard script run by two sessions at once.  Each   *)
(* session's script runs in a thread of its own, and the read of the cache *)
(* file (lines 148-153) and its write (lines 156-160) are separate file    *)
(* operations with no lock around them, so another session's read or write *)
(* can fall between them.  The write (open, pickle.dump, close) is one     *)
(* step.                                                                   *)
(***************************************************************************)
\* an update that reads the cache file again when it saves
UpdateBase_Reloaded(loaded, cache) == LoadCache(cache)

\* the Counter that global_vocab_counter.update adds to: the one this run of
\* the script loaded, whatever the cache file holds by now
UpdateBase(loaded, cache) == loaded

\* Counter(extract_vocab(...)) of each processed file, with the default filter
FileVocab ==
    [f \in 1..Len(ProcessedFiles) |->
        Counter(extract_vocab(ProcessedFiles[f], DashStopwords,
                              user_filter_words(DefaultFilter)))]

\* lines 104-153 of a run of the script by session s: a file is selected, its
\* vocabulary counted and the cache file loaded
LoadVocab(s) ==
    /\ script[s].at = "idle"
    /\ \E f \in 1..Len(ProcessedFiles) :
          script' = [script EXCEPT ![s] =
             [at |-> "loaded",
              selected_file |-> f,
              file_vocab_counter |-> FileVocab[f],
              global_vocab_counter |-> LoadCache(vocab_cache),
              saved |-> script[s].saved]]
    /\ UNCHANGED <<vocab_cache, session_state, shown, pipeVars, cleanVars, vocabVars>>

\* lines 156-160 of the same run: when the session's flag is set the file's
\* counts are added to the loaded Counter, the sum is dumped to the cache
\* file and the flag is reset; then the tabs are drawn
UpdateVocab(s) ==
    /\ script[s].at = "loaded"
    /\ LET update == ShouldUpdate(session_state[s])
           global_vocab_counter ==
               IF update
               THEN CounterUpdate(UpdateBase(script[s].global_vocab_counter, vocab_cache),
                                  script[s].file_vocab_counter)
               ELSE script[s].global_vocab_counter
       IN  /\ vocab_cache' = IF update THEN <<global_vocab_counter>> ELSE vocab_cache
           /\ session_state' =
                 IF update THEN [session_state EXCEPT ![s] = FALSE]
                 ELSE session_state
           /\ shown' = [shown EXCEPT ![s] =
                 [selected_file |-> script[s].selected_file,
                  file_vocab_counter |-> script[s].file_vocab_counter,
                  global_vocab_counter |-> global_vocab_counter]]
           /\ script' = [script EXCEPT ![s] =
                 ScriptIdle(IF update THEN script[s].selected_file
                            ELSE script[s].saved)]
    /\ UNCHANGED <<pipeVars, cleanVars, vocabVars>>

InitSessions ==
    /\ PipeIdle
    /\ CleanIdle
    /\ VocabIdle
    /\ DashIdle

NextSessions ==
    \E s \in Sessions : RequestUpdate(s) \/ LoadVocab(s) \/ UpdateVocab(s)

SpecSessions == InitSessions /\ [][NextSessions]_vars

(***************************************************************************)
(* SpecSplit: the segmenter alone, over candidate durations at and around  *)
(* every threshold.                                                        *)
(***************************************************************************)
SplitDurations ==
    {1, MinSegmentMs, MinSegmentMs + 1, MinChunkMs, MaxSegmentMs, MaxSegmentMs + 1,
     ChunkLengthMs + MinChunkMs + 20000, ChunkLengthMs + MinChunkMs + 20001,
     3 * ChunkLengthMs, 3 * ChunkLengthMs + MinChunkMs + 1}

SplitAudioLens == {MinSegmentMs, 200000}

InitSplit ==
    /\ pc = "loaded"
    /\ variant = "standalone"
    /\ audioLen \in SplitAudioLens
    /\ candidates = <<>>
    /\ segments = <<>>
    /\ i = 0
    /\ sections = <<>>
    /\ log = <<>>
    /\ manifest = None
    /\ tempExists = FALSE
    /\ CleanIdle
    /\ VocabIdle
    /\ DashIdle

NextSplit == SplitAudio(SplitDurations, MaxCands)

SpecSplit == InitSplit /\ [][NextSplit]_vars

(***************************************************************************)
(* SpecRun: whole runs of process_audio_file.                              *)
(***************************************************************************)
RunDurations == {2000, MinSegmentMs, 4000, 31000}

RunAudioLens == {MinSegmentMs, 40000}

InitRun ==
    /\ pc = "start"
    /\ variant \in {"standalone", "dashboard"}
    /\ audioLen = None
    /\ candidates = <<>>
    /\ segments = <<>>
    /\ i = 0
    /\ sections = <<>>
    /\ log = <<>>
    /\ manifest = None
    /\ tempExists = FALSE
    /\ CleanIdle
    /\ VocabIdle
    /\ DashIdle

NextRun ==
    \/ Load(RunAudioLens)
    \/ SplitAudio(RunDurations, MaxRunCands)
    \/ ProcessSegment
    \/ Finish

SpecRun == InitRun /\ [][NextRun]_vars


(***************************************************************************)
(* Properties of the segmenter (SpecSplit).                                *)
(***************************************************************************)
\* segment a comes before segment b in the recording
Before(a, b) == a.cand < b.cand \/ (a.cand = b.cand /\ a.start < b.start)

\* C2: every emitted segment is a candidate of duration in (3000, 30000] kept
\* as it is, or a chunk of duration in (5000, 20000] of a candidate longer than
\* 30000; none is <= 3000 or > 30000; and the segments are in temporal order.
C2_SegmentDurations ==
    pc = "loop" =>
        \A k \in 1..Len(segments) :
            LET g == segments[k]
                c == candidates[g.cand]
            IN  /\ \/ /\ c <= 30000
                      /\ g.start = 0
                      /\ g.len = c
                      /\ g.len > 3000
                   \/ /\ c > 30000
                      /\ g.len > 5000
                      /\ g.len <= 20000
                /\ g.len > 3000
                /\ g.len <= 30000
                /\ k > 1 => Before(segments[k - 1], g)

\* C2 witness: a candidate of 65001 ms gave three chunks of 20000 ms and one
\* of 5001 ms, a candidate of 3000 ms was dropped and one of 3001 ms kept.
C2_Witness ==
    /\ pc = "loop"
    /\ candidates = <<65001, 3000, 3001>>
    /\ Len(segments) = 5
    /\ segments[4].len = 5001
    /\ segments[5] = [cand |-> 3, start |-> 0, len |-> 3001]

(***************************************************************************)
(* Properties of whole runs (SpecRun).                                     *)
(***************************************************************************)
\* the section made from the segment at 1-based position n, as a set
SectionsOf(n) ==
    {k \in 1..Len(sections) : sections[k].segment_number = n}

\* the iteration at position n ended in "continue" or in an exception
Skipped(n) == log[n].export # "ok" \/ log[n].tts = None

Heard(n) ==
    /\ log[n].stt = "text"
    /\ Strip(log[n].heard) # <<>>

\* the iteration at position n was not the one that ended the run
NotFatal(n) == n = Len(log) => (pc # "failed" /\ i = n)

NotBlank(c) == c # " "
NoBlanks(s) == SelectSeq(s, NotBlank)

PlaceholderStart == SubSeq(PlaceholderHead, 1, 24)

\* text e is the placeholder of a failed translation of french: between
\* "[Translation failed for:" and "...]" it holds the first 50 characters of
\* french and nothing more, up to blanks
IsPlaceholderOf(e, french) ==
    /\ Len(e) >= 28
    /\ SubSeq(e, 1, 24) = PlaceholderStart
    /\ SubSeq(e, Len(e) - 3, Len(e)) = PlaceholderTail
    /\ LET excerpt == SubSeq(e, 25, Len(e) - 4)
       IN  /\ Len(NoBlanks(excerpt)) <= 50
           /\ NoBlanks(excerpt) = NoBlanks(SubSeq(french, 1, Min(50, Len(french))))

\* C3: a translation failure on a segment does not end the run; the segment
\* still yields a section whose English text is the placeholder with at most
\* the first 50 characters of the French text; and in the manifest every later
\* segment with a non-blank transcription has its section.
C3_TranslationFailureIsolated ==
    /\ \A n \in 1..Len(log) :
          (log[n].translation = "error" /\ log[n].export = "ok") =>
              /\ NotFatal(n)
              /\ SectionsOf(n) # {}
              /\ \A k \in SectionsOf(n) :
                    IsPlaceholderOf(sections[k].englishText, sections[k].frenchText)
    /\ pc = "done" =>
          \A n \in 1..Len(log), m \in 1..Len(segments) :
              (log[n].translation = "error" /\ m > n) =>
                  /\ m <= Len(log)
                  /\ Heard(m) =>
                        \E k \in 1..Len(manifest.sections) :
                            manifest.sections[k].segment_number = m

\* C3 witness: the translation of the first of two segments failed on a French
\* text of 52 characters; its section holds the placeholder with the first 49
\* (the 50th, a blank, went with the cleaning), and the second segment has its
\* section in the manifest.
C3_Witness ==
    /\ pc = "done"
    /\ Len(segments) = 2
    /\ log[1].translation = "error"
    /\ log[1].heard = LongFr
    /\ Len(manifest.sections) = 2
    /\ manifest.sections[1].englishText =
            PlaceholderHead \o Rep("a", 49) \o PlaceholderTail
    /\ manifest.sections[2].segment_number = 2

\* C4: when the recognizer reports unintelligible audio or a service error the
\* segment yields no section and the run goes on with the next segment; the
\* sections of the manifest are exactly the segments whose trimmed
\* transcription is not empty, in the segmenter's order.
C4_RecognitionFailureSkips ==
    /\ \A n \in 1..Len(log) :
          log[n].stt \in {"UnknownValueError", "RequestError"} =>
              /\ NotFatal(n)
              /\ SectionsOf(n) = {}
    /\ pc = "done" =>
          /\ Len(log) = Len(segments)
          /\ \A n \in 1..Len(segments) :
                Heard(n) <=> \E k \in 1..Len(manifest.sections) :
                                manifest.sections[k].segment_number = n
          /\ \A k \in 2..Len(manifest.sections) :
                manifest.sections[k - 1].segment_number
                    < manifest.sections[k].segment_number

\* C4 witness: the recognizer's service failed on the first of two segments
\* and returned a text for the second; the manifest holds the second alone.
C4_Witness ==
    /\ pc = "done"
    /\ Len(segments) = 2
    /\ log[1].stt = "RequestError"
    /\ log[2].heard = ShortFr
    /\ Len(manifest.sections) = 1
    /\ manifest.sections[1].frenchText = <<"o", "u", "i", ".">>

\* C5: in every manifest totalSegments is the length of sections.
C5_TotalSegments ==
    pc = "done" => manifest.totalSegments = Len(manifest.sections)

\* C5 witness: a manifest of a run over two segments of which one was skipped.
C5_Witness ==
    /\ pc = "done"
    /\ Len(segments) = 2
    /\ Len(manifest.sections) = 1
    /\ manifest.totalSegments = 1

\* C9: a failure of the English synthesis does not end the run; the segment's
\* section is emitted with its englishAudioFilePath, and the manifest that is
\* written holds it.
C9_SynthesisFailureIsolated ==
    /\ \A n \in 1..Len(log) :
          log[n].tts = "error" =>
              /\ NotFatal(n)
              /\ \E k \in SectionsOf(n) :
                    sections[k].englishAudioFilePath =
                        <<"english_audio", OutputBase(variant), "en", n>>
    /\ pc = "done" =>
          /\ Len(log) = Len(segments)
          /\ manifest.sections = sections

\* C9 witness: the synthesis failed for the first of two segments; the manifest
\* holds both sections.
C9_Witness ==
    /\ pc = "done"
    /\ Len(segments) = 2
    /\ log[1].tts = "error"
    /\ Len(manifest.sections) = 2
    /\ manifest.sections[1].englishAudioFilePath[4] = 1

\* C10: when the segmenter retains no segment the loop has nothing to do, the
\* run ends without error, and its manifest has no section, totalSegments 0
\* and the duration of the whole input, which is positive, as totalDuration.
C10_NoSegmentRun ==
    /\ (pc = "loop" /\ segments = <<>>) =>
          (ENABLED Finish /\ ~ENABLED ProcessSegment)
    /\ (pc = "done" /\ segments = <<>>) =>
          /\ manifest.sections = <<>>
          /\ manifest.totalSegments = 0
          /\ manifest.totalDuration = audioLen
          /\ manifest.totalDuration > 0

\* C10 witness: an input of 3000 ms without a silence boundary is one candidate
\* of 3000 ms, which the segmenter drops; the manifest is written.
C10_Witness ==
    /\ pc = "done"
    /\ audioLen = 3000
    /\ candidates = <<3000>>
    /\ segments = <<>>
    /\ manifest.sections = <<>>
    /\ manifest.totalDuration = 3000

\* C11: after every call of transcribe_audio_segment the working file
\* temp_segment.wav no longer exists, whatever the call's outcome: text, an
\* empty result on no speech or on a service error, an unexpected recognizer
\* error, or a failure of the export of the working file itself.
C11_TempFileRemoved == log # <<>> => ~tempExists

(***************************************************************************)
(* Properties of the vocabulary aggregation (SpecVocab).                   *)
(***************************************************************************)
\* the positions where a whitespace-separated token of s starts
TokenStarts(s) ==
    {p \in 1..Len(s) : ~IsSpace(s[p]) /\ (p = 1 \/ IsSpace(s[p - 1]))}

\* the token of s that starts at p
TokenAt(s, p) ==
    LET e == CHOOSE e \in p..Len(s) :
                /\ \A k \in p..e : ~IsSpace(s[k])
                /\ e = Len(s) \/ IsSpace(s[e + 1])
    IN  SubSeq(s, p, e)

\* the occurrences of word w, lowercased, among the tokens of the texts
Occurrences(w) ==
    {tp \in UNION {{<<t, p>> : p \in TokenStarts(frenchTexts[t])} :
                        t \in 1..Len(frenchTexts)} :
        Lower(TokenAt(frenchTexts[tp[1]], tp[2])) = w}

\* the words the user entered, between commas and line ends, trimmed
EnteredWords ==
    LET s == filter_words_input
        IsSep(c) == c \in {",", "\n"}
        starts == {a \in 1..Len(s) : ~IsSep(s[a]) /\ (a = 1 \/ IsSep(s[a - 1]))}
        piece(a) ==
            LET b == CHOOSE b \in a..Len(s) :
                        /\ \A k \in a..b : ~IsSep(s[k])
                        /\ b = Len(s) \/ IsSep(s[b + 1])
            IN  SubSeq(s, a, b)
    IN  {Strip(piece(a)) : a \in starts} \ {<<>>}

AimeChat ==
    (<<"a", "i", "m", "e">> :> 1) @@ (<<"c", "h", "a", "t">> :> 1)

\* C7: the per-file vocabulary counts exactly the whitespace-separated tokens
\* that, lowercased, are purely alphabetic and neither a stopword nor a word
\* of the user's list compared without regard to case; "Jean aime le chat"
\* with stopwords {le} and filter {jean} gives {aime: 1, chat: 1}.
C7_VocabCounts ==
    file_vocab_counter # <<>> =>
        LET counted == file_vocab_counter[1]
            kept(w) ==
                /\ IsAlpha(w)
                /\ w \notin french_stopwords
                /\ \A u \in EnteredWords : Lower(u) # w
        IN  /\ \A w \in DOMAIN counted : Occurrences(w) # {}
            /\ \A t \in 1..Len(frenchTexts) :
                  \A p \in TokenStarts(frenchTexts[t]) :
                      LET w == Lower(TokenAt(frenchTexts[t], p))
                      IN  CountOf(counted, w) =
                            IF kept(w) THEN Cardinality(Occurrences(w)) ELSE 0
            /\ (/\ frenchTexts = <<JeanAimeLeChat>>
                /\ french_stopwords = {<<"l", "e">>}
                /\ <<"j", "e", "a", "n">> \in {Lower(u) : u \in EnteredWords})
                    => counted = AimeChat

\* C7 witness: "Jean aime le chat" was counted with stopwords {le} and a
\* filter that names JEAN in capitals: aime and chat are counted once each.
C7_Witness ==
    /\ file_vocab_counter = <<AimeChat>>
    /\ frenchTexts = <<JeanAimeLeChat>>
    /\ french_stopwords = {<<"l", "e">>}
    /\ filter_words_input # DefaultFilter
    /\ <<"J", "E", "A", "N">> \in EnteredWords

AimeChatChat ==
    (<<"a", "i", "m", "e">> :> 1) @@ (<<"c", "h", "a", "t">> :> 3)

\* C12: the load, merge and save of the global vocabulary by a session is not
\* atomic, and the last writer wins: whenever a session saves, the stored
\* mapping becomes the mapping that session loaded plus the counts of its
\* file, whatever other sessions have stored since that load; so with two
\* sessions that both load and then both update and save there is an
\* interleaving after which only the last writer's contribution is stored
\* (the state of C12_Witness).
C12_LastWriterWins ==
    [][\A s \in Sessions :
          (script[s].at = "loaded" /\ script'[s].at = "idle" /\ session_state[s]) =>
              /\ vocab_cache' # <<>>
              /\ script'[s].saved = script[s].selected_file
              /\ \A w \in DOMAIN LoadCache(vocab_cache) \cup DOMAIN LoadCache(vocab_cache')
                          \cup DOMAIN script[s].global_vocab_counter
                          \cup DOMAIN script[s].file_vocab_counter :
                    CountOf(LoadCache(vocab_cache'), w) =
                       CountOf(script[s].global_vocab_counter, w)
                       + CountOf(script[s].file_vocab_counter, w)]_vars

\* C12 witness: session 1 has added the first file's counts and saved, and
\* session 2, which had loaded the cache before that save, has added the
\* second file's and saved: the cache holds the second file's counts alone
\* (chat: 3, not 4; aime: 1, not 2), and session 1's added counts are lost.
C12_Witness ==
    /\ \A s \in Sessions : script[s].at = "idle" /\ ~session_state[s]
    /\ script[1].saved = 1
    /\ script[2].saved = 2
    /\ shown[1].selected_file = 1
    /\ shown[2].selected_file = 2
    /\ vocab_cache = <<AimeChatChat>>
    /\ CountOf(LoadCache(vocab_cache), <<"c", "h", "a", "t">>) = 3
    /\ CountOf(LoadCache(vocab_cache), <<"a", "i", "m", "e">>) = 1

(***************************************************************************)
(* SpecClean: clean_text applied once, then again to its own result.       *)
(***************************************************************************)
CleanAlphabet == {" ", "\t", ".", ",", "?", "!", "a"}

InitClean ==
    /\ PipeIdle
    /\ VocabIdle
    /\ DashIdle
    /\ cleanIn \in TextsUpTo(CleanAlphabet, MaxLen)
    /\ cleanOnce = <<>>
    /\ cleanTwice = <<>>

CleanFirst ==
    /\ cleanOnce = <<>>
    /\ cleanOnce' = <<clean_text(cleanIn)>>
    /\ UNCHANGED <<cleanIn, cleanTwice, pipeVars, vocabVars, dashVars>>

CleanSecond ==
    /\ cleanOnce # <<>>
    /\ cleanTwice = <<>>
    /\ cleanTwice' = <<clean_text(cleanOnce[1])>>
    /\ UNCHANGED <<cleanIn, cleanOnce, pipeVars, vocabVars, dashVars>>

NextClean == CleanFirst \/ CleanSecond

SpecClean == InitClean /\ [][NextClean]_vars

\* C6: clean_text is idempotent: cleaning an already cleaned text returns it
\* unchanged, for every input text.
C6_CleanIdempotent == cleanTwice # <<>> => cleanTwice = cleanOnce

\* C6 witness: a text mixing a whitespace run with punctuation was cleaned
\* twice, and the first cleaning changed it.
C6_Witness ==
    /\ cleanTwice # <<>>
    /\ cleanIn = <<"a", " ", "\t", ".">>
    /\ cleanOnce = <<<<"a", ".">>>>

====
